---- MODULE Spec2Model ----
(***************************************************************************)
(* Model of src/app.py (Immo-Tracker AI): a Streamlit script that extracts *)
(* a real-estate record with a generative model, lets the user edit it in  *)
(* a form and POSTs it to a webhook.                                       *)
(*                                                                         *)
(* Text is modelled as a sequence of text units.  A unit is an atomic      *)
(* piece of text: a punctuation character, the three-backtick fence        *)
(* marker, a word or a number literal.  str.replace, str.find, str.rfind,  *)
(* str.strip and slicing act on these sequences as Python's act on         *)
(* characters.                                                             *)
(***************************************************************************)
EXTENDS Integers, Sequences, FiniteSets, TLC

\* ------------------------------------------------------------------------
\* Bounds of the model
\* ------------------------------------------------------------------------
MaxMembers == 2      \* members of a JSON object drawn as model output
MaxProse == 1        \* prose units before / after the JSON payload
MaxImages == 2       \* uploaded files per Analyze click

\* ------------------------------------------------------------------------
\* Text units
\* ------------------------------------------------------------------------
LB == "{"
RB == "}"
QUOTE == "\""
COLON == ":"
COMMA == ","
NL == "\n"
FENCE == "<fence>"   \* the three-backtick markdown fence marker
JSONWORD == "json"

Whitespace == {NL}

\* ------------------------------------------------------------------------
\* Python values: every value is a record [t, v], v a sequence of units.
\* ------------------------------------------------------------------------
Str(s) == [t |-> "str", v |-> s]
Num(u) == [t |-> "num", v |-> <<u>>]
Bool(b) == [t |-> "bool", v |-> <<IF b THEN "true" ELSE "false">>]
NullV == [t |-> "null", v |-> <<>>]
Obj(s) == [t |-> "obj", v |-> s]

EmptyMap == [k \in {} |-> NullV]

\* Python truthiness of a value (bool(x))
Truthy(x) ==
    CASE x.t = "str" -> x.v # <<>>
      [] x.t = "num" -> x.v \notin {<<"0">>, <<"0.0">>}
      [] x.t = "bool" -> x.v = <<"true">>
      [] x.t = "null" -> FALSE
      [] OTHER -> x.v # <<LB, RB>>

\* ------------------------------------------------------------------------
\* str methods used by analyze_with_gemini (src/app.py:88-90)
\* ------------------------------------------------------------------------
Min(a, b) == IF a < b THEN a ELSE b

StartsWithAt(s, i, pat) ==
    /\ i + Len(pat) - 1 <= Len(s)
    /\ \A j \in 1..Len(pat) : s[i + j - 1] = pat[j]

RECURSIVE ReplaceFrom(_, _, _)
\* s[i..] with every non-overlapping occurrence of pat, left to right, removed
ReplaceFrom(s, i, pat) ==
    IF i > Len(s) THEN <<>>
    ELSE IF StartsWithAt(s, i, pat) THEN ReplaceFrom(s, i + Len(pat), pat)
    ELSE <<s[i]>> \o ReplaceFrom(s, i + 1, pat)

\* s.replace(pat, "")
Replace(s, pat) == ReplaceFrom(s, 1, pat)

\* s.strip()
Strip(s) ==
    LET keep == {i \in 1..Len(s) : s[i] \notin Whitespace}
    IN IF keep = {} THEN <<>>
       ELSE LET a == CHOOSE i \in keep : \A j \in keep : i <= j
                b == CHOOSE i \in keep : \A j \in keep : j <= i
            IN SubSeq(s, a, b)

\* s.find(u): 0-based index of the first occurrence, -1 when absent
Find(s, u) ==
    LET at == {i \in 1..Len(s) : s[i] = u}
    IN IF at = {} THEN -1
       ELSE (CHOOSE i \in at : \A j \in at : i <= j) - 1

\* variant of RFind: the first occurrence instead of the last
RFind_First(s, u) ==
    LET at == {i \in 1..Len(s) : s[i] = u}
    IN IF at = {} THEN -1
       ELSE (CHOOSE i \in at : \A j \in at : i <= j) - 1

\* s.rfind(u): 0-based index of the last occurrence, -1 when absent
RFind(s, u) ==
    LET at == {i \in 1..Len(s) : s[i] = u}
    IN IF at = {} THEN -1
       ELSE (CHOOSE i \in at : \A j \in at : j <= i) - 1

\* s[start:end] for 0 <= start, 0 <= end
Slice(s, start, end) == SubSeq(s, start + 1, Min(end, Len(s)))

\* ------------------------------------------------------------------------
\* json.loads on a unit sequence (src/app.py:90).  Objects whose values are
\* strings, numbers, true, false, null or objects; whitespace is NL.
\* A parse step returns [ok, val, next]: next is the index after the value.
\* ------------------------------------------------------------------------
NumberUnits ==
    {"0", "50", "300000", "0.0", "1.0", "50.0", "300000.0", "250000.0"}
LiteralUnits == {"null", "true", "false"}

Fail == [ok |-> FALSE, val |-> NullV, next |-> 0]

RECURSIVE SkipWs(_, _)
SkipWs(s, i) ==
    IF i <= Len(s) /\ s[i] \in Whitespace THEN SkipWs(s, i + 1) ELSE i

\* a string literal: QUOTE, units other than QUOTE and control characters,
\* QUOTE
ParseString(s, i) ==
    IF i > Len(s) \/ s[i] # QUOTE THEN Fail
    ELSE LET closing == {j \in (i + 1)..Len(s) : s[j] = QUOTE}
         IN IF closing = {} THEN Fail
            ELSE LET j == CHOOSE c \in closing : \A d \in closing : c <= d
                     body == SubSeq(s, i + 1, j - 1)
                 IN IF \E k \in 1..Len(body) : body[k] \in Whitespace
                    THEN Fail
                    ELSE [ok |-> TRUE, val |-> Str(body), next |-> j + 1]

NoWs(s) == SelectSeq(s, LAMBDA u : u \notin Whitespace)

\* dict assignment d[k] = v
Put(d, k, v) ==
    IF k \in DOMAIN d THEN [d EXCEPT ![k] = v]
    ELSE [x \in DOMAIN d \cup {k} |-> IF x = k THEN v ELSE d[x]]

RECURSIVE ParseValue(_, _)
RECURSIVE ParseMembers(_, _, _)

\* members of an object after its opening brace; i is at the next key.
\* Returns [ok, map, next].
ParseMembers(s, i, acc) ==
    LET key == ParseString(s, i)
    IN IF ~key.ok THEN [ok |-> FALSE, map |-> EmptyMap, next |-> 0]
       ELSE LET c == SkipWs(s, key.next)
            IN IF c > Len(s) \/ s[c] # COLON
               THEN [ok |-> FALSE, map |-> EmptyMap, next |-> 0]
               ELSE LET val == ParseValue(s, SkipWs(s, c + 1))
                    IN IF ~val.ok
                       THEN [ok |-> FALSE, map |-> EmptyMap, next |-> 0]
                       ELSE LET e == SkipWs(s, val.next)
                                acc2 == Put(acc, key.val.v, val.val)
                            IN IF e > Len(s)
                               THEN [ok |-> FALSE, map |-> EmptyMap, next |-> 0]
                               ELSE IF s[e] = RB
                               THEN [ok |-> TRUE, map |-> acc2, next |-> e + 1]
                               ELSE IF s[e] = COMMA
                               THEN ParseMembers(s, SkipWs(s, e + 1), acc2)
                               ELSE [ok |-> FALSE, map |-> EmptyMap, next |-> 0]

\* an object starting at s[i] = LB.  Returns [ok, map, next].
ParseObject(s, i) ==
    LET j == SkipWs(s, i + 1)
    IN IF j > Len(s) THEN [ok |-> FALSE, map |-> EmptyMap, next |-> 0]
       ELSE IF s[j] = RB THEN [ok |-> TRUE, map |-> EmptyMap, next |-> j + 1]
       ELSE ParseMembers(s, j, EmptyMap)

ParseValue(s, i) ==
    IF i > Len(s) THEN Fail
    ELSE IF s[i] = QUOTE THEN ParseString(s, i)
    ELSE IF s[i] \in NumberUnits
         THEN [ok |-> TRUE, val |-> Num(s[i]), next |-> i + 1]
    ELSE IF s[i] \in LiteralUnits
         THEN [ok |-> TRUE,
               val |-> IF s[i] = "null" THEN NullV ELSE Bool(s[i] = "true"),
               next |-> i + 1]
    ELSE IF s[i] = LB
         THEN LET o == ParseObject(s, i)
              IN IF o.ok
                 THEN [ok |-> TRUE,
                       val |-> Obj(NoWs(SubSeq(s, i, o.next - 1))),
                       next |-> o.next]
                 ELSE Fail
    ELSE Fail

\* json.loads(s) for a text that starts with LB or is empty, as every slice
\* taken at src/app.py:90 does.  [ok |-> FALSE] is a raised JSONDecodeError.
JsonLoads(s) ==
    LET i == SkipWs(s, 1)
    IN IF i > Len(s) \/ s[i] # LB THEN [ok |-> FALSE, map |-> EmptyMap]
       ELSE LET o == ParseObject(s, i)
            IN IF o.ok /\ SkipWs(s, o.next) > Len(s)
               THEN [ok |-> TRUE, map |-> o.map]
               ELSE [ok |-> FALSE, map |-> EmptyMap]

\* ------------------------------------------------------------------------
\* Notifications (st.error / st.warning / st.success)
\* ------------------------------------------------------------------------
ErrImage == "error: Erreur lecture image"
WarnScraping == "warning: Scraping direct echoue"
ErrGemini == "error: Erreur Gemini"
ErrWebhook == "error: Erreur Webhook"
ErrApiKey == "error: API Key manquante."
OkSent == "success: Envoye !"

\* ------------------------------------------------------------------------
\* process_images (src/app.py:35-46).  An uploaded file is a unit; Image.open
\* raises on the files of BadFiles, and the others have a colour mode.
\* ------------------------------------------------------------------------
RgbFiles == {"a.jpg"}
OtherModeFiles == {"b.png"}
BadFiles == {"c.png"}
Files == RgbFiles \cup OtherModeFiles \cup BadFiles

\* a prompt part: [kind, body]
Part(kind, body) == [kind |-> kind, body |-> body]

\* the PIL image of a decodable file, after convert("RGB") where needed
RgbImage(f) == Part("image", <<f, "RGB">>)

RECURSIVE ProcessFrom(_, _)
ProcessFrom(files, i) ==
    IF i > Len(files) THEN <<>>
    ELSE IF files[i] \in BadFiles THEN ProcessFrom(files, i + 1)
    ELSE <<RgbImage(files[i])>> \o ProcessFrom(files, i + 1)

\* returns [images, notices]
process_images(uploaded_files) ==
    [images |-> ProcessFrom(uploaded_files, 1),
     notices |-> IF \E i \in 1..Len(uploaded_files) :
                        uploaded_files[i] \in BadFiles
                 THEN {ErrImage} ELSE {}]

\* ------------------------------------------------------------------------
\* fetch_url_content (src/app.py:48-59).  net is what the network does with
\* the GET: [raises, status, body].  raise_for_status raises for 4xx and 5xx.
\* ------------------------------------------------------------------------
FetchCap == 30000

RaiseForStatus(status) == 400 <= status /\ status < 600

\* returns [none, html, notices]; none = TRUE is Python's None
fetch_url_content(url, net) ==
    IF net.raises \/ RaiseForStatus(net.status)
    THEN [none |-> TRUE, html |-> <<>>, notices |-> {WarnScraping}]
    ELSE [none |-> FALSE, html |-> Slice(net.body, 0, FetchCap),
          notices |-> {}]

\* ------------------------------------------------------------------------
\* analyze_with_gemini (src/app.py:61-93).  gen is what the model does with
\* the call: [raises, text].
\* ------------------------------------------------------------------------
Instruction == Part("instruction", <<"Agis comme un expert immobilier.">>)

\* variant of BuildPrompt: no context block when the fetch gave nothing
BuildPrompt_SkipOnFailure(raw_text, url_input, images, net) ==
    LET fetched == fetch_url_content(url_input, net)
        urlPart ==
            IF url_input = <<>> THEN <<>>
            ELSE IF ~fetched.none /\ fetched.html # <<>>
                 THEN <<Part("html", fetched.html)>>
                 ELSE <<>>
        textPart ==
            IF raw_text = <<>> THEN <<>> ELSE <<Part("text", raw_text)>>
    IN <<Instruction>> \o urlPart \o textPart \o images

\* variant of BuildPrompt: the text block before the HTML-or-URL block
BuildPrompt_TextFirst(raw_text, url_input, images, net) ==
    LET fetched == fetch_url_content(url_input, net)
        urlPart ==
            IF url_input = <<>> THEN <<>>
            ELSE IF ~fetched.none /\ fetched.html # <<>>
                 THEN <<Part("html", fetched.html)>>
                 ELSE <<Part("url", url_input)>>
        textPart ==
            IF raw_text = <<>> THEN <<>> ELSE <<Part("text", raw_text)>>
    IN <<Instruction>> \o textPart \o urlPart \o images

\* the prompt list built at lines 66-83
BuildPrompt(raw_text, url_input, images, net) ==
    LET fetched == fetch_url_content(url_input, net)
        urlPart ==
            IF url_input = <<>> THEN <<>>
            ELSE IF ~fetched.none /\ fetched.html # <<>>
                 THEN <<Part("html", fetched.html)>>
                 ELSE <<Part("url", url_input)>>
        textPart ==
            IF raw_text = <<>> THEN <<>> ELSE <<Part("text", raw_text)>>
    IN <<Instruction>> \o urlPart \o textPart \o images

\* response cleanup, line 88
CleanResponse(text) == Strip(Replace(Replace(text, <<FENCE, JSONWORD>>), <<FENCE>>))

\* json_str[start:end] of line 90, for a json_str that holds a LB
Payload(json_str) ==
    Slice(json_str, Find(json_str, LB), RFind(json_str, RB) + 1)

\* variant of RecoverJson: a text without LB is handed to json.loads, which
\* raises on it
RecoverJson_NoGuard(text) ==
    LET json_str == CleanResponse(text)
        start == Find(json_str, LB)
    IN IF start # -1
       THEN LET parsed == JsonLoads(Payload(json_str))
            IN [none |-> ~parsed.ok, map |-> parsed.map]
       ELSE [none |-> TRUE, map |-> EmptyMap]

\* lines 88-90: [none, map]; none = TRUE is a raised exception
RecoverJson(text) ==
    LET json_str == CleanResponse(text)
        start == Find(json_str, LB)
    IN IF start # -1
       THEN LET parsed == JsonLoads(Payload(json_str))
            IN [none |-> ~parsed.ok, map |-> parsed.map]
       ELSE [none |-> FALSE, map |-> EmptyMap]

\* returns [none, map, calls, notices]: calls is the list of prompts handed
\* to model.generate_content, none = TRUE is the returned None
analyze_with_gemini(raw_text, url_input, images, net, gen) ==
    LET prompt == BuildPrompt(raw_text, url_input, images, net)
        fetchNotices ==
            IF url_input = <<>> THEN {}
            ELSE fetch_url_content(url_input, net).notices
        rec == IF gen.raises THEN [none |-> TRUE, map |-> EmptyMap]
               ELSE RecoverJson(gen.text)
    IN [none |-> rec.none, map |-> rec.map, calls |-> <<prompt>>,
        notices |-> fetchNotices \cup (IF rec.none THEN {ErrGemini} ELSE {})]

\* ------------------------------------------------------------------------
\* generate_draft_message (src/app.py:95-115)
\* ------------------------------------------------------------------------
DraftError == <<"Erreur generation message.">>

generate_draft_message(quartier, gen) ==
    IF gen.raises THEN Str(DraftError) ELSE Str(gen.text)

\* ------------------------------------------------------------------------
\* send_to_webhook (src/app.py:117-125).  net is what the network does with
\* the POST: [raises, status].
\* ------------------------------------------------------------------------
SuccessCodes == {200, 302}

\* variant of send_to_webhook: only status 200 is a success
send_to_webhook_Only200(webhook_url, data, net) ==
    [ok |-> ~net.raises /\ net.status = 200,
     posts |-> <<[url |-> webhook_url, body |-> data]>>,
     notices |-> IF net.raises THEN {ErrWebhook} ELSE {}]

\* returns [ok, posts, notices]: posts is the list of POST attempts
send_to_webhook(webhook_url, data, net) ==
    [ok |-> ~net.raises /\ net.status \in SuccessCodes,
     posts |-> <<[url |-> webhook_url, body |-> data]>>,
     notices |-> IF net.raises THEN {ErrWebhook} ELSE {}]

\* ------------------------------------------------------------------------
\* ImmoData (src/app.py:16-31): field names and defaults
\* ------------------------------------------------------------------------
K_date == <<"date">>
K_ville == <<"ville">>
K_quartier == <<"quartier">>
K_prix == <<"prix">>
K_surface == <<"surface">>
K_type_vendeur == <<"type_vendeur">>
K_email == <<"email">>
K_telephone == <<"telephone">>
K_url == <<"url">>
K_status == <<"status">>
K_commentaire == <<"commentaire">>
K_create_draft == <<"create_draft">>
K_message_draft == <<"message_draft">>

ExtractionFields ==
    {K_date, K_ville, K_quartier, K_prix, K_surface, K_type_vendeur,
     K_email, K_telephone}
SystemFields ==
    {K_url, K_status, K_commentaire, K_create_draft, K_message_draft}
RecordFields == ExtractionFields \cup SystemFields

VendeurOptions == <<Str(<<"Agence">>), Str(<<"Particulier">>), Str(<<"Autre">>)>>
StatusOptions == <<Str(<<"Non">>), Str(<<"A contacter">>), Str(<<"Contacte">>)>>

Today == <<"2026-11-03">>

\* ImmoData().model_dump()
ImmoData ==
    [k \in RecordFields |->
        CASE k = K_date -> Str(Today)
          [] k \in {K_prix, K_surface} -> Num("0.0")
          [] k = K_type_vendeur -> Str(<<"Agence">>)
          [] k = K_status -> Str(<<"A contacter">>)
          [] k = K_create_draft -> Bool(FALSE)
          [] OTHER -> Str(<<>>)]

\* ------------------------------------------------------------------------
\* The review form (src/app.py:177-205).  sub holds the values the browser
\* submits with the form, one per widget the user changed; a widget the user
\* did not change returns the value it was given.
\* ------------------------------------------------------------------------
SegmentA ==
    <<K_date, K_ville, K_prix, K_email, K_quartier, K_surface,
      K_type_vendeur, K_telephone>>
SegmentB == <<K_message_draft, K_create_draft, K_status, K_commentaire>>

NumberFields == {K_prix, K_surface}
SelectFields == {K_type_vendeur, K_status}
ToggleFields == {K_create_draft}

\* float(x): [err, val]
FloatText ==
    [u \in NumberUnits |->
        CASE u = "0" -> "0.0"
          [] u = "50" -> "50.0"
          [] u = "300000" -> "300000.0"
          [] OTHER -> u]

FloatOf(x) ==
    CASE x.t = "num" -> [err |-> "none", val |-> Num(FloatText[x.v[1]])]
      [] x.t = "bool" ->
            [err |-> "none",
             val |-> Num(IF x.v = <<"true">> THEN "1.0" ELSE "0.0")]
      [] x.t = "str" ->
            IF Len(x.v) = 1 /\ x.v[1] \in NumberUnits
            THEN [err |-> "none", val |-> Num(FloatText[x.v[1]])]
            ELSE [err |-> "ValueError", val |-> NullV]
      [] OTHER -> [err |-> "TypeError", val |-> NullV]

\* the str() cast text_input and text_area apply to their value
TextOf(x) ==
    CASE x.t = "str" -> x
      [] x.t = "null" -> NullV
      [] x.t = "bool" -> Str(<<IF x.v = <<"true">> THEN "True" ELSE "False">>)
      [] OTHER -> Str(x.v)

InOptions(options, x) == \E i \in 1..Len(options) : options[i] = x

W(sub, f, default) == IF f \in DOMAIN sub THEN sub[f] ELSE default

\* dict.get(key, default)
Get(d, k, default) == IF k \in DOMAIN d THEN d[k] ELSE default

\* the value one widget line assigns: [err, val]
WidgetValue(fd, sub, f) ==
    IF f \in NumberFields
    THEN LET c == FloatOf(fd[f])
         IN IF c.err # "none" THEN c
            ELSE [err |-> "none", val |-> W(sub, f, c.val)]
    ELSE IF f \in SelectFields
    THEN LET options == IF f = K_type_vendeur THEN VendeurOptions
                        ELSE StatusOptions
             cur == Get(fd, f, IF f = K_type_vendeur THEN Str(<<"Agence">>)
                               ELSE Str(<<"A contacter">>))
         IN IF InOptions(options, cur)
            THEN [err |-> "none", val |-> W(sub, f, cur)]
            ELSE [err |-> "ValueError", val |-> NullV]
    ELSE IF f \in ToggleFields
    THEN [err |-> "none", val |-> W(sub, f, Bool(Truthy(fd[f])))]
    ELSE [err |-> "none", val |-> W(sub, f, TextOf(fd[f]))]

RECURSIVE RunWidgets(_, _, _, _)
\* the widget lines fields[i..] executed in order on fd; an exception ends
\* the script run and keeps the assignments made before it: [err, fd]
RunWidgets(fd, sub, fields, i) ==
    IF i > Len(fields) THEN [err |-> "none", fd |-> fd]
    ELSE LET w == WidgetValue(fd, sub, fields[i])
         IN IF w.err # "none" THEN [err |-> w.err, fd |-> fd]
            ELSE RunWidgets(Put(fd, fields[i], w.val), sub, fields, i + 1)

\* dict.update(other)
Update(d, other) ==
    [k \in DOMAIN d \cup DOMAIN other |->
        IF k \in DOMAIN other THEN other[k] ELSE d[k]]

\* d without key k
Without(d, k) == [x \in DOMAIN d \ {k} |-> d[x]]

\* ------------------------------------------------------------------------
\* State
\* ------------------------------------------------------------------------
VARIABLES
    form_data,   \* st.session_state.form_data
    clicked,     \* the button that triggered the last script run
    req,         \* the inputs of that run: sidebar and source widgets, and
                 \* what the network and the model answered
    submitted,   \* the form values the browser submitted with that run
    res,         \* what analyze_with_gemini returned in that run
    calls,       \* the prompts handed to the extraction model in that run
    posts,       \* the webhook POST attempts of that run
    sent,        \* what send_to_webhook returned in that run
    notices,     \* the notifications on screen after that run
    runError     \* the uncaught exception that ended that run, or "none"

vars ==
    <<form_data, clicked, req, submitted, res, calls, posts, sent, notices,
      runError>>

NoResult == [none |-> FALSE, map |-> EmptyMap]

\* ------------------------------------------------------------------------
\* Script runs (src/app.py:129-211), one per click
\* ------------------------------------------------------------------------
AllWidgets == SegmentA \o SegmentB

\* "Analyser" (lines 160-171) followed by the form of lines 174-205
Analyser(r) ==
    \E processed \in {IF r.files # <<>> THEN process_images(r.files)
                      ELSE [images |-> <<>>, notices |-> {}]} :
    \E a \in {analyze_with_gemini(r.raw_text, r.url_input, processed.images,
                                  r.net, r.gen)} :
    \E called \in {r.api_key # <<>>} :
    \E merged \in {called /\ ~a.none /\ a.map # EmptyMap} :
    \E form \in {RunWidgets(
                    IF merged
                    THEN Put(Update(form_data, a.map), K_url,
                             Str(r.url_input))
                    ELSE form_data,
                    EmptyMap, AllWidgets, 1)} :
       /\ clicked' = "Analyser"
       /\ req' = r
       /\ submitted' = EmptyMap
       /\ res' = IF called THEN [none |-> a.none, map |-> a.map] ELSE NoResult
       /\ calls' = IF called THEN a.calls ELSE <<>>
       /\ posts' = <<>>
       /\ sent' = FALSE
       \* st.rerun() at line 171 clears what the first run displayed
       /\ notices' = IF ~called THEN {ErrApiKey}
                     ELSE IF merged THEN {}
                     ELSE processed.notices \cup a.notices
       /\ form_data' = form.fd
       /\ runError' = form.err

\* "Generer Msg" (lines 194-197): the form is submitted, lines 180-188 run,
\* the draft is stored and the script reruns.  In the rerun the Message
\* text area is a new widget showing msg unless msg is the value it already
\* had, and the widgets below it still hold the submitted values.
Generer(r, sub) ==
    \E first \in {RunWidgets(form_data, sub, SegmentA, 1)} :
    \E msg \in {generate_draft_message(first.fd[K_quartier], r.gen)} :
    \E sub2 \in {IF msg = TextOf(form_data[K_message_draft]) THEN sub
                 ELSE Without(sub, K_message_draft)} :
    \E final \in {IF first.err # "none" THEN first
                  ELSE RunWidgets(Put(first.fd, K_message_draft, msg), sub2,
                                  AllWidgets, 1)} :
       /\ runError = "none"
       /\ clicked' = "Generer"
       /\ req' = r
       /\ submitted' = sub
       /\ res' = NoResult
       /\ calls' = <<>>
       /\ posts' = <<>>
       /\ sent' = FALSE
       /\ notices' = {}
       /\ form_data' = final.fd
       /\ runError' = final.err

\* variant of Envoyer: the record is reset to ImmoData() once it is sent
Envoyer_ResetWhenSent(r, sub) ==
    \E form \in {RunWidgets(form_data, sub, AllWidgets, 1)} :
    \E w \in {send_to_webhook(r.webhook_url, form.fd, r.post)} :
    \E reached \in {form.err = "none"} :
       /\ runError = "none"
       /\ clicked' = "Envoyer"
       /\ req' = r
       /\ submitted' = sub
       /\ res' = NoResult
       /\ calls' = <<>>
       /\ posts' = IF reached THEN w.posts ELSE <<>>
       /\ sent' = (reached /\ w.ok)
       /\ notices' = IF ~reached THEN {}
                     ELSE w.notices \cup (IF w.ok THEN {OkSent} ELSE {})
       /\ form_data' = IF reached /\ w.ok THEN ImmoData ELSE form.fd
       /\ runError' = form.err

\* "Envoyer vers Sheets" (lines 208-211): the form is submitted, lines
\* 180-205 run, then the record is posted
Envoyer(r, sub) ==
    \E form \in {RunWidgets(form_data, sub, AllWidgets, 1)} :
    \E w \in {send_to_webhook(r.webhook_url, form.fd, r.post)} :
    \E reached \in {form.err = "none"} :
       /\ runError = "none"
       /\ clicked' = "Envoyer"
       /\ req' = r
       /\ submitted' = sub
       /\ res' = NoResult
       /\ calls' = <<>>
       /\ posts' = IF reached THEN w.posts ELSE <<>>
       /\ sent' = (reached /\ w.ok)
       /\ notices' = IF ~reached THEN {}
                     ELSE w.notices \cup (IF w.ok THEN {OkSent} ELSE {})
       /\ form_data' = form.fd
       /\ runError' = form.err

\* ------------------------------------------------------------------------
\* Model responses: a JSON object written from a list of members, wrapped in
\* a markdown fence or not, with prose before and after
\* ------------------------------------------------------------------------
SeqsUpTo(S, n) == UNION {[1..k -> S] : k \in 0..n}

Member(k, val) == [k |-> k, val |-> val]

\* the JSON text of a value
ValueText(val) ==
    CASE val.t = "str" -> <<QUOTE>> \o val.v \o <<QUOTE>>
      [] val.t = "null" -> <<"null">>
      [] OTHER -> val.v

MemberText(m) == <<QUOTE>> \o m.k \o <<QUOTE, COLON>> \o ValueText(m.val)

RECURSIVE MembersText(_, _)
MembersText(members, i) ==
    IF i > Len(members) THEN <<>>
    ELSE IF i = Len(members) THEN MemberText(members[i])
    ELSE MemberText(members[i]) \o <<COMMA, NL>> \o MembersText(members, i + 1)

ObjectText(members) == <<LB>> \o MembersText(members, 1) \o <<RB>>

FenceKinds == {"none", "json", "bare"}

WrapText(pre, fence, members, post) ==
    pre
    \o (CASE fence = "json" -> <<FENCE, JSONWORD, NL>>
          [] fence = "bare" -> <<FENCE, NL>>
          [] OTHER -> <<>>)
    \o ObjectText(members)
    \o (IF fence = "none" THEN <<>> ELSE <<NL, FENCE>>)
    \o post

RECURSIVE DenotesFrom(_, _, _)
DenotesFrom(members, i, acc) ==
    IF i > Len(members) THEN acc
    ELSE DenotesFrom(members, i + 1, Put(acc, members[i].k, members[i].val))

\* the mapping a JSON object with these members denotes (a repeated key
\* keeps its last value)
Denotes(members) == DenotesFrom(members, 1, EmptyMap)

\* a string with the fence markers taken out
Unfenced(str) == Replace(Replace(str, <<FENCE, JSONWORD>>), <<FENCE>>)

\* the members with the fence markers taken out of their keys and strings
UnfencedMembers(members) ==
    [i \in 1..Len(members) |->
        Member(Unfenced(members[i].k),
               IF members[i].val.t = "str"
               THEN Str(Unfenced(members[i].val.v))
               ELSE members[i].val)]

Wrapped(pre, fence, members, post) ==
    [raises |-> FALSE, text |-> WrapText(pre, fence, members, post),
     shape |-> [kind |-> "wrapped", pre |-> pre, fence |-> fence,
                members |-> members, post |-> post]]

PlainShape ==
    [kind |-> "plain", pre |-> <<>>, fence |-> "none", members |-> <<>>,
     post |-> <<>>]

Plain(text) == [raises |-> FALSE, text |-> text, shape |-> PlainShape]

GenRaises == [raises |-> TRUE, text |-> <<>>, shape |-> PlainShape]

\* ------------------------------------------------------------------------
\* Inputs of the session
\* ------------------------------------------------------------------------
ListingUrl == <<"https://annonce.example/1">>
HtmlBody == <<"<html>", "annonce", "</html>">>

NetOk == [raises |-> FALSE, status |-> 200, body |-> HtmlBody]
NetRaises == [raises |-> TRUE, status |-> 0, body |-> <<>>]
PostOk == [raises |-> FALSE, status |-> 200]

BaseReq ==
    [api_key |-> <<"key">>, webhook_url |-> <<"https://hook.example">>,
     raw_text |-> <<>>, url_input |-> <<>>, files |-> <<>>,
     net |-> NetOk, gen |-> Plain(<<>>), post |-> PostOk]

SessionObjects ==
    {<<Member(K_ville, Str(<<"Paris">>)), Member(K_prix, Num("300000"))>>,
     <<Member(K_type_vendeur, Str(<<"Promoteur">>))>>,
     <<Member(K_status, Str(<<"Non">>)),
       Member(<<"notes">>, Str(<<"calme">>))>>,
     <<Member(K_prix, NullV)>>}

SessionGens ==
    {Wrapped(<<>>, "json", o, <<>>) : o \in SessionObjects}
    \cup {Plain(<<"Aucune", "annonce">>), Plain(<<LB, QUOTE, "ville">>),
          GenRaises}

UrlGens ==
    {Wrapped(<<>>, "json",
             <<Member(K_ville, Str(<<"Paris">>)),
               Member(K_prix, Num("300000"))>>, <<>>),
     GenRaises}

AnalyseReqs ==
    {[BaseReq EXCEPT !.gen = g, !.raw_text = <<"Appartement">>] :
        g \in SessionGens}
    \cup {[BaseReq EXCEPT !.gen = g, !.url_input = ListingUrl,
                          !.net = n, !.files = <<"b.png", "c.png">>] :
            g \in UrlGens, n \in {NetOk, NetRaises}}
    \cup {[BaseReq EXCEPT !.api_key = <<>>, !.raw_text = <<"Appartement">>]}

DraftReqs ==
    {[BaseReq EXCEPT !.gen = g] :
        g \in {Plain(<<"Bonjour,", "quartier">>), GenRaises}}

PostOutcomes ==
    {[raises |-> FALSE, status |-> c] : c \in {200, 201, 302, 404, 500}}
    \cup {[raises |-> TRUE, status |-> 0]}

SendReqs == {[BaseReq EXCEPT !.post = p] : p \in PostOutcomes}

\* what the user changed in the form before submitting it
Edits ==
    {EmptyMap,
     (K_ville :> Str(<<"Lyon">>)) @@ (K_status :> Str(<<"Contacte">>))
        @@ (K_create_draft :> Bool(TRUE)),
     (K_message_draft :> Str(<<"Bonjour">>)),
     (K_type_vendeur :> Str(<<"Particulier">>))
        @@ (K_prix :> Num("250000.0"))}

\* ------------------------------------------------------------------------
\* The session: the record starts as ImmoData() and the first script run
\* has shown the form
\* ------------------------------------------------------------------------
Init ==
    /\ form_data = RunWidgets(ImmoData, EmptyMap, AllWidgets, 1).fd
    /\ clicked = "none"
    /\ req = BaseReq
    /\ submitted = EmptyMap
    /\ res = NoResult
    /\ calls = <<>>
    /\ posts = <<>>
    /\ sent = FALSE
    /\ notices = {}
    /\ runError = "none"

ClickAnalyser == \E r \in AnalyseReqs : Analyser(r)
ClickGenerer == \E r \in DraftReqs, sub \in Edits : Generer(r, sub)
ClickEnvoyer == \E r \in SendReqs, sub \in Edits : Envoyer(r, sub)

Next == ClickAnalyser \/ ClickGenerer \/ ClickEnvoyer

Spec == Init /\ [][Next]_vars

\* ------------------------------------------------------------------------
\* One Analyze click on a fresh session, over a wide range of inputs: the
\* source widgets are filled in and the click is pending
\* ------------------------------------------------------------------------
MemberPool ==
    {Member(K_ville, Str(<<"Paris">>)),
     Member(K_ville, Str(<<"Lyon">>)),
     Member(K_prix, Num("300000")),
     Member(<<"note">>, Str(<<RB, LB>>)),
     Member(<<"q">>, Str(<<FENCE, JSONWORD>>)),
     Member(<<"o">>, Obj(<<LB, RB>>))}

ProseUnits == {"Voici", LB, RB}
PlainUnits == {"Aucune", LB, RB, FENCE, JSONWORD, NL}

WrappedGens ==
    {Wrapped(pre, fence, members, post) :
        pre \in SeqsUpTo(ProseUnits, MaxProse),
        fence \in FenceKinds,
        members \in SeqsUpTo(MemberPool, MaxMembers),
        post \in SeqsUpTo(ProseUnits, MaxProse)}

PlainGens == {Plain(t) : t \in SeqsUpTo(PlainUnits, MaxProse + 1)}

FetchOutcomes ==
    {NetOk, NetRaises,
     [raises |-> FALSE, status |-> 200, body |-> <<>>],
     [raises |-> FALSE, status |-> 300, body |-> HtmlBody],
     [raises |-> FALSE, status |-> 404, body |-> HtmlBody],
     [raises |-> FALSE, status |-> 500, body |-> <<>>]}

ExtractReqs ==
    {[BaseReq EXCEPT !.gen = g, !.raw_text = <<"Appartement">>] :
        g \in WrappedGens \cup PlainGens \cup {GenRaises}}
    \cup
    {[BaseReq EXCEPT !.api_key = k, !.url_input = u, !.net = n,
                     !.raw_text = t, !.files = f, !.gen = g] :
        k \in {<<>>, <<"key">>}, u \in {<<>>, ListingUrl},
        n \in FetchOutcomes, t \in {<<>>, <<"Appartement">>},
        f \in SeqsUpTo(Files, MaxImages), g \in UrlGens}

InitExtract ==
    /\ form_data = RunWidgets(ImmoData, EmptyMap, AllWidgets, 1).fd
    /\ clicked = "none"
    /\ req \in ExtractReqs
    /\ submitted = EmptyMap
    /\ res = NoResult
    /\ calls = <<>>
    /\ posts = <<>>
    /\ sent = FALSE
    /\ notices = {}
    /\ runError = "none"

ClickPending == clicked = "none" /\ Analyser(req)

NextExtract == ClickPending

SpecExtract == InitExtract /\ [][NextExtract]_vars

\* ------------------------------------------------------------------------
\* Properties
\* ------------------------------------------------------------------------
Units(str) == {str[i] : i \in 1..Len(str)}

\* the last run called analyze_with_gemini
Analysed == clicked = "Analyser" /\ req.api_key # <<>>

\* the last run analysed a response made of a JSON object, fenced or not,
\* with prose around it
AnalysedWrapped ==
    Analysed /\ ~req.gen.raises /\ req.gen.shape.kind = "wrapped"

RecoveredObject ==
    /\ ~res.none
    /\ Payload(CleanResponse(req.gen.text))
         = ObjectText(UnfencedMembers(req.gen.shape.members))
    /\ res.map = Denotes(UnfencedMembers(req.gen.shape.members))

\* C1 (as claimed): an Analyze click leaves status, commentaire,
\* create_draft and message_draft as they were, and url is never taken from
\* the model's mapping (it keeps its value or receives the URL field's
\* content from line 170).
C1_SystemFieldsKept ==
    [][clicked' = "Analyser" =>
         /\ \A k \in SystemFields \ {K_url} : form_data'[k] = form_data[k]
         /\ form_data'[K_url] \in {form_data[K_url], Str(req'.url_input)}]_vars

\* C2 (as claimed): when the model call of an Analyze click, or of a
\* Generate-message click submitted without form edits, fails, the run does
\* not end in an exception and the record is the one before the click.
C2_FailureKeepsRecord ==
    [][((clicked' = "Analyser" /\ req'.api_key # <<>> /\ res'.none)
        \/ (clicked' = "Generer" /\ req'.gen.raises
            /\ submitted' = EmptyMap))
       => (form_data' = form_data /\ runError' = "none")]_vars

\* C3 (as claimed): for every response made of a well-formed JSON object,
\* fenced or not, with any prose around it, the payload cut from the first
\* LB to the last RB is the object's text and the call returns the
\* object's mapping.
C3_AnyProse == AnalysedWrapped => RecoveredObject

\* C3 (amended): the same, for responses whose prose before the object
\* holds no LB and whose prose after it holds no RB; the fence markers are
\* also removed inside the object's strings.
C3_BraceFreeProse ==
    (/\ AnalysedWrapped
     /\ LB \notin Units(req.gen.shape.pre)
     /\ RB \notin Units(req.gen.shape.post))
    => RecoveredObject

C3_Witness ==
    /\ AnalysedWrapped
    /\ req.gen.shape.fence = "json"
    /\ req.gen.shape.pre = <<RB>>
    /\ req.gen.shape.post = <<LB>>
    /\ DOMAIN res.map = {K_ville, <<"note">>}
    /\ res.map[<<"note">>] = Str(<<RB, LB>>)

\* C4: a response text without LB makes analyze_with_gemini return the
\* empty mapping, not None, and no Gemini error is shown.
C4_NoBraceEmptyMapping ==
    (Analysed /\ ~req.gen.raises /\ LB \notin Units(req.gen.text))
    => (/\ ~res.none
        /\ res.map = EmptyMap
        /\ ErrGemini \notin notices
        /\ Len(calls) = 1)

C4_Witness ==
    /\ Analysed
    /\ ~req.gen.raises
    /\ req.gen.text = <<RB, "Aucune">>
    /\ res = NoResult
    /\ Len(calls) = 1

KindCount(prompt, kinds) ==
    Cardinality({i \in 1..Len(prompt) : prompt[i].kind \in kinds})

BareUrlPrompt ==
    /\ runError = "none"
    /\ Len(calls) = 1
    /\ KindCount(calls[1], {"html"}) = 0
    /\ KindCount(calls[1], {"url"}) = 1
    /\ \E i \in 1..Len(calls[1]) : calls[1][i] = Part("url", req.url_input)

\* C5 (as claimed): a non-empty URL whose fetch raises or ends with a
\* status outside 200..299 still gives exactly one model call, with a
\* bare-URL block and no HTML block.
C5_Non2xx ==
    (/\ Analysed
     /\ req.url_input # <<>>
     /\ (req.net.raises \/ req.net.status \notin 200..299))
    => BareUrlPrompt

\* C5 (amended): the same for a fetch that raises or ends with a 4xx or
\* 5xx status, the statuses raise_for_status raises for.
C5_FetchFailureBareUrl ==
    (/\ Analysed
     /\ req.url_input # <<>>
     /\ (req.net.raises \/ req.net.status \in 400..599))
    => BareUrlPrompt

C5_Witness ==
    /\ Analysed
    /\ req.url_input = ListingUrl
    /\ req.net.status = 404
    /\ req.net.body # <<>>
    /\ calls = <<<<Instruction, Part("url", ListingUrl)>>>>

\* the images of the decodable files, in upload order
DecodedImages(files) ==
    LET good == SelectSeq(files, LAMBDA f : f \notin BadFiles)
    IN [i \in 1..Len(good) |-> RgbImage(good[i])]

\* C7: the prompt of the one model call is the instruction block, then one
\* HTML-or-URL block iff a URL was given, then one text block iff raw text
\* was given, then the images in order; with nothing given it is the
\* instruction block alone.
C7_PromptLayout ==
    Analysed =>
       /\ Len(calls) = 1
       /\ LET prompt == calls[1]
              nUrl == IF req.url_input # <<>> THEN 1 ELSE 0
              nText == IF req.raw_text # <<>> THEN 1 ELSE 0
              images == DecodedImages(req.files)
          IN /\ Len(prompt) = 1 + nUrl + nText + Len(images)
             /\ prompt[1] = Instruction
             /\ KindCount(prompt, {"instruction"}) = 1
             /\ nUrl = 1 => prompt[2].kind \in {"html", "url"}
             /\ nText = 1 => prompt[2 + nUrl] = Part("text", req.raw_text)
             /\ \A i \in 1..Len(images) :
                    prompt[1 + nUrl + nText + i] = images[i]

C7_Witness ==
    /\ Analysed
    /\ req.files = <<"b.png", "a.jpg">>
    /\ calls = <<<<Instruction, Part("html", HtmlBody),
                   Part("text", <<"Appartement">>),
                   RgbImage("b.png"), RgbImage("a.jpg")>>>>

\* the last run reached send_to_webhook
Posted == clicked = "Envoyer" /\ runError = "none"

\* C6: send_to_webhook makes one POST attempt and returns success exactly
\* for status 200 or 302; any other status and any transport exception
\* give failure, and the run does not end in an exception.
C6_WebhookResult ==
    (clicked = "Envoyer") =>
       /\ Posted
       /\ Len(posts) = 1
       /\ req.post.raises => ~sent /\ ErrWebhook \in notices
       /\ ~req.post.raises =>
             (sent <=> (req.post.status = 200 \/ req.post.status = 302))

C6_Witness ==
    /\ Posted
    /\ req.post.status = 302
    /\ ~req.post.raises
    /\ sent
    /\ Len(posts) = 1

\* C8 (as claimed): the body of every webhook POST has exactly the thirteen
\* field names of ImmoData as its keys.
C8_BodyKeys ==
    \A i \in 1..Len(posts) : DOMAIN posts[i].body = RecordFields

\* C9 (as claimed): type_vendeur and status are always among the options
\* of their select boxes.
C9_EnumeratedFields ==
    /\ InOptions(VendeurOptions, form_data[K_type_vendeur])
    /\ InOptions(StatusOptions, form_data[K_status])

\* C10: a Send click posts the record as it stands after the submitted form
\* values are applied and leaves it as posted, on success and on failure;
\* with no form edit the record is the one before the click, and a second
\* Send posts the same body again.
C10_SendKeepsRecord ==
    [][clicked' = "Envoyer" =>
         /\ Len(posts') = 1
         /\ posts'[1].body = form_data'
         /\ submitted' = EmptyMap => form_data' = form_data
         /\ (submitted' = EmptyMap /\ clicked = "Envoyer")
               => posts'[1].body = posts[1].body]_vars

C10_Witness ==
    /\ Posted
    /\ ~sent
    /\ req.post.status = 500
    /\ submitted = EmptyMap
    /\ posts[1].body = form_data
    /\ form_data[K_ville] = Str(<<"Lyon">>)

====
